---------------------------- MODULE Spec2Model ----------------------------
(***************************************************************************)
(* A model of dicom_numpy.combine_slices: the DICOMDIR filter, the three   *)
(* slice orderings, the uniform-grid validation, the pixel merge and the   *)
(* ijk -> patient xyz affine.                                              *)
(*                                                                         *)
(* Numbers.  Positions, cosines, spacings and pixel values are integers;   *)
(* every tolerance test of the code is written as the exact rational       *)
(* inequality it stands for (|a-b| <= rtol*|b| with rtol = 1/10 becomes    *)
(* 10*|a-b| <= |b|).  np.median of integers may be a half, so the affine   *)
(* is kept in halves: an entry e of `transform` stands for e/2.            *)
(*                                                                         *)
(* A dataset is an attribute bag: a record whose DOMAIN is the set of      *)
(* attributes it carries (hasattr = membership in DOMAIN).  None is <<>>,  *)
(* a present value v read through getattr(ds, name, None) is <<v>>.        *)
(***************************************************************************)
EXTENDS Integers, Sequences, FiniteSets, TLC

VARIABLES
    datasets,               \* argument: the caller's list
    rescale,                \* argument: "None" | "True" | "False"
    enforce_slice_spacing,  \* argument
    sort_by_instance,       \* argument
    skip_sorting,           \* argument
    c_order_axes,           \* argument
    pc,                     \* position inside combine_slices
    slice_datasets,         \* local, line 100
    sorted_datasets,        \* local, lines 105-110
    voxels,                 \* local, line 114
    transform,              \* local, line 115 (in halves)
    raised,                 \* the exception that ended the call, or NoException
    warnings,               \* what logger.warning was called with
    allocated,              \* np.empty has made the output buffer (lines 175, 179)
    unit,                   \* orientation checks alone: cosines count 1/unit
    orientations,           \* orientation checks alone: the vectors checked
    verdict                 \* orientation checks alone: [exc, warnings], or <<>>

vars == <<datasets, rescale, enforce_slice_spacing, sort_by_instance,
          skip_sorting, c_order_axes, pc, slice_datasets, sorted_datasets,
          voxels, transform, raised, warnings, allocated,
          unit, orientations, verdict>>

-----------------------------------------------------------------------------
(* Bounds of the model *)

MaxSlices == 3           \* longest list of slices that differ in position only
MaxPos == 3              \* their positions are 0..MaxPos
MaxInstanceSlices == 2   \* longest list with instance numbers or DICOMDIR datasets
MaxInstancePos == 1      \* their positions are 0..MaxInstancePos
MaxInstance == 1         \* their instance numbers are 0..MaxInstance
MaxShapeSlices == 2             \* slices in a list of differing buffer shapes
MaxAttrSlices == 3              \* slices in a list of differing attributes
MaxAffineSlices == 2            \* slices in a list with spacings and a hint
MaxMergeSlices == 2      \* longest list with rescale attributes

-----------------------------------------------------------------------------
(* Generic helpers *)

Abs(x) == IF x < 0 THEN -x ELSE x

Reverse(s) == [i \in 1..Len(s) |-> s[Len(s) + 1 - i]]

RECURSIVE Indices(_)
\* every index tuple (0-based) of an array of the given shape
Indices(shape) ==
    IF shape = <<>> THEN {<<>>}
    ELSE {<<i>> \o rest : i \in 0..(shape[1] - 1), rest \in Indices(Tail(shape))}

\* a sort that puts items of equal key in the reverse of their input order
SortedIndices_ties_reversed(keys, reverse) ==
    LET n == Len(keys)
        Before(a, b) == IF reverse THEN a > b ELSE a < b
        Rank(i) == Cardinality({j \in 1..n : Before(keys[j], keys[i])})
                   + Cardinality({j \in (i + 1)..n : keys[j] = keys[i]}) + 1
    IN  [p \in 1..n |-> CHOOSE i \in 1..n : Rank(i) = p]

\* Python's sorted(items, key=..., reverse=...): the indices of `keys` in
\* output order.  The sort is stable, also with reverse=True.
SortedIndices(keys, reverse) ==
    LET n == Len(keys)
        Before(a, b) == IF reverse THEN a > b ELSE a < b
        Rank(i) == Cardinality({j \in 1..n : Before(keys[j], keys[i])})
                   + Cardinality({j \in 1..(i - 1) : keys[j] = keys[i]}) + 1
    IN  [p \in 1..n |-> CHOOSE i \in 1..n : Rank(i) = p]

\* np.diff
Diff(s) == [i \in 1..(Len(s) - 1) |-> s[i + 1] - s[i]]

\* sorted(list of numbers)
SortedNumbers(s) == LET idx == SortedIndices(s, FALSE)
                    IN  [p \in 1..Len(s) |-> s[idx[p]]]

\* np.median, in halves (twice the median)
Median2(s) ==
    LET t == SortedNumbers(s)
        n == Len(s)
    IN  IF n % 2 = 1 THEN 2 * t[(n + 1) \div 2]
        ELSE t[n \div 2] + t[(n \div 2) + 1]

\* np.allclose(a, b, atol=0, rtol=1/rtolInv) for one pair of numbers
CloseRel(a, b, rtolInv) == rtolInv * Abs(a - b) <= Abs(b)

Dot(u, v) == u[1] * v[1] + u[2] * v[2] + u[3] * v[3]

Cross(u, v) == << u[2] * v[3] - u[3] * v[2],
                  u[3] * v[1] - u[1] * v[3],
                  u[1] * v[2] - u[2] * v[1] >>

-----------------------------------------------------------------------------
(* Attribute bags and exceptions *)

HasAttr(ds, name) == name \in DOMAIN ds

\* getattr(ds, name, None)
GetAttrOrNone(ds, name) == IF HasAttr(ds, name) THEN <<ds[name]>> ELSE <<>>

\* getattr(ds, name, default), default of the attribute's own type
GetAttr(ds, name, default) == IF HasAttr(ds, name) THEN ds[name] ELSE default

NoException == [type |-> "none", reason |-> "", property |-> ""]

DicomImportException(reason, property) ==
    [type |-> "DicomImportException", reason |-> reason, property |-> property]

MissingInstanceNumberException ==
    [type |-> "MissingInstanceNumberException", reason |-> "", property |-> ""]

ValueError == [type |-> "ValueError", reason |-> "shape", property |-> ""]

\* the DicomImportException of _slice_attribute_equal: its message names the
\* property and the two values, `value != initial_value`
AttributeMismatch(property_name, value, initial_value) ==
    [type |-> "DicomImportException", reason |-> "attribute",
     property |-> property_name, values |-> <<value, initial_value>>]

DICOMDIR_UID == "1.2.840.10008.1.3.10"

\* _is_dicomdir taking any dataset with a MediaStorageSOPClassUID for one
_is_dicomdir_any_media_class(dataset) == HasAttr(dataset, "MediaStorageSOPClassUID")

_is_dicomdir(dataset) ==
    GetAttrOrNone(dataset, "MediaStorageSOPClassUID") = <<DICOMDIR_UID>>

-----------------------------------------------------------------------------
(* Geometry *)

_extract_cosines(image_orientation) ==
    LET row_cosine == SubSeq(image_orientation, 1, 3)
        column_cosine == SubSeq(image_orientation, 4, 6)
    IN  [row |-> row_cosine, column |-> column_cosine,
         slice |-> Cross(row_cosine, column_cosine)]

_slice_positions(ds) ==
    LET slice_cosine == _extract_cosines(ds[1].ImageOrientationPatient).slice
    IN  [k \in 1..Len(ds) |-> Dot(slice_cosine, ds[k].ImagePositionPatient)]

-----------------------------------------------------------------------------
(* The orderings *)

\* sort_by_slice_position that leaves the list as it is
sort_by_slice_position_unsorted(ds) == ds

\* sort_by_slice_position with reverse=True
sort_by_slice_position_descending(ds) ==
    LET idx == SortedIndices(_slice_positions(ds), TRUE)
    IN  [p \in 1..Len(ds) |-> ds[idx[p]]]

\* lines 142-155
sort_by_slice_position(ds) ==
    LET idx == SortedIndices(_slice_positions(ds), FALSE)
    IN  [p \in 1..Len(ds) |-> ds[idx[p]]]

\* the key of the sort: int(InstanceNumber); InstanceNumber is an integer
\* (DICOM VR IS), which int() leaves as it is
InstanceKey(n) == n

sort_by_instance_number_raises(ds) ==
    \E k \in 1..Len(ds) : GetAttrOrNone(ds[k], "InstanceNumber") = <<>>

\* sort_by_instance_number without reverse=True
sort_by_instance_number_ascending(ds) ==
    LET keys == [k \in 1..Len(ds) |-> InstanceKey(ds[k].InstanceNumber)]
        idx == SortedIndices(keys, FALSE)
    IN  [p \in 1..Len(ds) |-> ds[idx[p]]]

sort_by_instance_number(ds) ==
    LET keys == [k \in 1..Len(ds) |-> InstanceKey(ds[k].InstanceNumber)]
        idx == SortedIndices(keys, TRUE)
    IN  [p \in 1..Len(ds) |-> ds[idx[p]]]


-----------------------------------------------------------------------------
(* Validation *)

(* The tolerance tests are exact: a cosine is an integer count of 1/scale,  *)
(* scale = 1 in the lists combine_slices is run on, and a tolerance is     *)
(* 1/tolInv.  Every test is brought to a comparison of integers that stays *)
(* below 2^31.                                                             *)

\* isclose(value, 0.0, abs_tol=1/tolInv) for a value counted in 1/scale2: the
\* relative term rel_tol*|value| reaches |value| only at value = 0, so the
\* test is |value| / scale2 <= 1 / tolInv
_almost_zero_scaled(scale2, value, tolInv) == Abs(value) <= scale2 \div tolInv

_almost_zero(value, tolInv) == _almost_zero_scaled(1, value, tolInv)

\* the norm test taken on the squared norm, the square root left out:
\* | s / scale^2 - 1 | <= 1 / tolInv
_almost_one_of_squared_norm(scale, v, tolInv) ==
    Abs(Dot(v, v) - scale * scale) <= (scale * scale) \div tolInv

\* isclose(np.linalg.norm(v), 1.0, abs_tol=1/tolInv) for a vector counted in
\* 1/scale, tolInv >= 10^4 (rel_tol = 1e-9 then stays below abs_tol):
\* | sqrt(s) / scale - 1 | <= 1 / tolInv with s = v.v, that is
\* scale^2 (1 - 1/tolInv)^2 <= s <= scale^2 (1 + 1/tolInv)^2.  With
\* scale^2 = q * tolInv + r the bounds on the integer s are
\*   s <= scale^2 + 2q + floor((q + 2r) / tolInv)
\*   s >= scale^2 - 2q - floor((2r - q - [r > 0]) / tolInv)
_almost_one_norm_scaled(scale, v, tolInv) ==
    LET s == Dot(v, v)
        scale2 == scale * scale
        q == scale2 \div tolInv
        r == scale2 % tolInv
    IN  /\ s <= scale2 + 2 * q + ((q + 2 * r) \div tolInv)
        /\ s >= scale2 - (2 * q + ((2 * r - q - (IF r > 0 THEN 1 ELSE 0)) \div tolInv))

\* for integer components the test is v.v = 1
NormAlmostOne(v, tolInv) == _almost_one_norm_scaled(1, v, tolInv)

\* np.allclose(value, initial_value, atol=1/tolInv) with numpy's default
\* rtol = 1e-5, componentwise |a - b| <= atol + rtol * |b|, for components
\* counted in 1/scale (tolInv divides 100000; both sides are multiplied by
\* 100000 * scale and divided by 100000, rounding down)
AllCloseScaled(scale, value, initial_value, tolInv) ==
    \A i \in 1..Len(value) :
        Abs(value[i] - initial_value[i])
            <= (scale * (100000 \div tolInv) + Abs(initial_value[i])) \div 100000

\* np.allclose with atol alone, numpy's default rtol left out
AllCloseScaled_atol_only(scale, value, initial_value, tolInv) ==
    \A i \in 1..Len(value) :
        Abs(value[i] - initial_value[i]) * tolInv <= scale

AllCloseAbs(value, initial_value, tolInv) == AllCloseScaled(1, value, initial_value, tolInv)

invariant_properties ==
    << "Modality", "SOPClassUID", "SeriesInstanceUID", "Rows", "Columns",
       "SamplesPerPixel", "PixelSpacing", "PixelRepresentation", "BitsAllocated" >>

\* TRUE when the loop of _slice_attribute_equal raises
_slice_attribute_differs(ds, property_name) ==
    \E k \in 2..Len(ds) :
        GetAttrOrNone(ds[k], property_name) # GetAttrOrNone(ds[1], property_name)

\* [exc, warnings] of _validate_image_orientation, the cosines counted in
\* 1/scale (and their dot product in 1/scale^2)
_validate_image_orientation_scaled(scale, image_orientation) ==
    LET c == _extract_cosines(image_orientation)
        row == c.row
        column == c.column
        d == Dot(row, column)
        w1 == IF ~_almost_zero_scaled(scale * scale, d, 100000000)
                THEN {"not quite orthogonal"} ELSE {}
        w2 == IF ~_almost_one_norm_scaled(scale, row, 100000000)
                THEN {"row not quite 1"} ELSE {}
        w3 == IF ~_almost_one_norm_scaled(scale, column, 100000000)
                THEN {"column not quite 1"} ELSE {}
    IN  IF ~_almost_zero_scaled(scale * scale, d, 10000)
          THEN [exc |-> DicomImportException("non-orthogonal", ""), warnings |-> {}]
        ELSE IF ~_almost_one_norm_scaled(scale, row, 10000)
          THEN [exc |-> DicomImportException("row magnitude", ""), warnings |-> w1]
        ELSE IF ~_almost_one_norm_scaled(scale, column, 10000)
          THEN [exc |-> DicomImportException("column magnitude", ""),
                warnings |-> w1 \cup w2]
        ELSE [exc |-> NoException, warnings |-> w1 \cup w2 \cup w3]

\* [exc, warnings] of _validate_image_orientation
_validate_image_orientation(image_orientation) ==
    _validate_image_orientation_scaled(1, image_orientation)

\* TRUE when _slice_ndarray_attribute_almost_equal raises, the components
\* counted in 1/scale
_slice_ndarray_attribute_differs_scaled(scale, ds, property_name, tolInv) ==
    \E k \in 2..Len(ds) :
        ~AllCloseScaled(scale, ds[k][property_name], ds[1][property_name], tolInv)

\* TRUE when _slice_ndarray_attribute_almost_equal raises
_slice_ndarray_attribute_differs(ds, property_name, tolInv) ==
    _slice_ndarray_attribute_differs_scaled(1, ds, property_name, tolInv)

\* _check_for_missing_slices that warns about uneven spacing and never raises
_check_for_missing_slices_warn_only(slice_positions) ==
    IF Len(slice_positions) > 1
      THEN LET slice_positions_diffs == Diff(SortedNumbers(slice_positions))
               AllClose(rtolInv) ==
                   \A i \in 1..Len(slice_positions_diffs) :
                       CloseRel(slice_positions_diffs[i], slice_positions_diffs[1], rtolInv)
           IN  [exc |-> NoException,
                warnings |-> IF ~AllClose(100000) THEN {"non-uniform spacing"} ELSE {}]
      ELSE [exc |-> NoException, warnings |-> {}]

\* [exc, warnings] of _check_for_missing_slices
_check_for_missing_slices(slice_positions) ==
    IF Len(slice_positions) > 1
      THEN LET slice_positions_diffs == Diff(SortedNumbers(slice_positions))
               AllClose(rtolInv) ==
                   \A i \in 1..Len(slice_positions_diffs) :
                       CloseRel(slice_positions_diffs[i], slice_positions_diffs[1], rtolInv)
               w == IF ~AllClose(100000) THEN {"non-uniform spacing"} ELSE {}
           IN  IF ~AllClose(10)
                 THEN [exc |-> DicomImportException("missing slices", ""), warnings |-> w]
                 ELSE [exc |-> NoException, warnings |-> w]
      ELSE [exc |-> NoException, warnings |-> {}]

\* the exception _slice_attribute_equal raises: at the first dataset of the
\* list, after the first, whose value differs from the first's
_slice_attribute_equal(ds, property_name) ==
    LET differs == {k \in 2..Len(ds) : GetAttrOrNone(ds[k], property_name)
                                          # GetAttrOrNone(ds[1], property_name)}
        k == CHOOSE i \in differs : \A j \in differs : i <= j
    IN  IF differs = {} THEN NoException
        ELSE AttributeMismatch(property_name, GetAttrOrNone(ds[k], property_name),
                               GetAttrOrNone(ds[1], property_name))

\* the validation looking at the orientation of the first slice before the
\* attributes
_validate_slices_form_uniform_grid_orientation_first(ds, enforce) ==
    LET bad == {i \in 1..Len(invariant_properties) :
                   _slice_attribute_differs(ds, invariant_properties[i])}
        o == _validate_image_orientation(ds[1].ImageOrientationPatient)
        m == _check_for_missing_slices(_slice_positions(ds))
    IN  IF o.exc # NoException THEN [exc |-> o.exc, warnings |-> {}]
        ELSE IF bad # {}
          THEN [exc |-> _slice_attribute_equal(ds,
                            invariant_properties[CHOOSE i \in bad : \A j \in bad : i <= j]),
                warnings |-> o.warnings]
        ELSE IF _slice_ndarray_attribute_differs(ds, "ImageOrientationPatient", 100000)
          THEN [exc |-> DicomImportException("orientation", "ImageOrientationPatient"),
                warnings |-> o.warnings]
        ELSE IF enforce /\ m.exc # NoException THEN [exc |-> m.exc, warnings |-> o.warnings]
        ELSE [exc |-> NoException, warnings |-> o.warnings \cup m.warnings]

\* [exc, warnings] of _validate_slices_form_uniform_grid
_validate_slices_form_uniform_grid(ds, enforce) ==
    LET bad == {i \in 1..Len(invariant_properties) :
                   _slice_attribute_differs(ds, invariant_properties[i])}
        o == _validate_image_orientation(ds[1].ImageOrientationPatient)
        m == _check_for_missing_slices(_slice_positions(ds))
    IN  IF bad # {}
          THEN [exc |-> _slice_attribute_equal(ds,
                            invariant_properties[CHOOSE i \in bad : \A j \in bad : i <= j]),
                warnings |-> {}]
        ELSE IF o.exc # NoException THEN o
        ELSE IF _slice_ndarray_attribute_differs(ds, "ImageOrientationPatient", 100000)
          THEN [exc |-> DicomImportException("orientation", "ImageOrientationPatient"),
                warnings |-> o.warnings]
        ELSE IF enforce
          THEN [exc |-> m.exc, warnings |-> o.warnings \cup m.warnings]
        ELSE [exc |-> NoException, warnings |-> o.warnings]

-----------------------------------------------------------------------------
(* Arrays: [dtype, shape, at], `at` a function of the 0-based index tuples *)

NoArray == [dtype |-> "", shape |-> <<>>, at |-> <<>>]

\* the pixel array taken without .T
Transpose_omitted(a) == a

\* ndarray.T: the axes reversed
Transpose(a) ==
    [dtype |-> a.dtype, shape |-> Reverse(a.shape),
     at |-> [idx \in Indices(Reverse(a.shape)) |-> a.at[Reverse(idx)]]]

\* storing a value into an array of the given dtype
Cast(dtype, v) ==
    IF dtype = "uint8" THEN v % 256
    ELSE IF dtype = "uint16" THEN v % 65536
    ELSE IF dtype = "int16" THEN ((v + 32768) % 65536) - 32768
    ELSE v      \* float32: exact for the integers below 2^24 the model uses

\* the source shape aligned to a target of rank r: padded with leading 1s, or
\* its leading axes dropped
AlignedShape(s, r) ==
    IF Len(s) <= r THEN [i \in 1..r |-> IF i <= r - Len(s) THEN 1 ELSE s[i - (r - Len(s))]]
    ELSE SubSeq(s, Len(s) - r + 1, Len(s))

\* numpy's rule for voxels[..., k] = pixel_array
Broadcastable(s, t) ==
    /\ Len(s) > Len(t) => \A i \in 1..(Len(s) - Len(t)) : s[i] = 1
    /\ \A i \in 1..Len(t) : AlignedShape(s, Len(t))[i] \in {1, t[i]}

\* the element of array p that lands at index idx of a slot of shape t
BroadcastAt(p, t, idx) ==
    LET s == p.shape
        r == Len(t)
        a == AlignedShape(s, r)
        j == [i \in 1..r |-> IF a[i] = 1 THEN 0 ELSE idx[i]]
    IN  IF Len(s) <= r THEN p.at[SubSeq(j, r - Len(s) + 1, r)]
        ELSE p.at[[i \in 1..Len(s) |-> IF i <= Len(s) - r THEN 0 ELSE j[i - (Len(s) - r)]]]

_requires_rescaling(dataset) ==
    HasAttr(dataset, "RescaleSlope") \/ HasAttr(dataset, "RescaleIntercept")

\* the rescale decision looking at the first dataset only
RescaleInEffect_first_only(ds, rescale_arg) ==
    IF rescale_arg = "None" THEN _requires_rescaling(ds[1])
    ELSE rescale_arg = "True"

\* lines 164-165 and the truth value tested at lines 170 and 183
RescaleInEffect(ds, rescale_arg) ==
    IF rescale_arg = "None" THEN \E k \in 1..Len(ds) : _requires_rescaling(ds[k])
    ELSE rescale_arg = "True"

\* the array written into slot k: lines 182-186
SlicePixels(dataset, do_rescale, c_order) ==
    LET pixel_array == IF c_order THEN dataset.pixel_array ELSE Transpose(dataset.pixel_array)
        slope == GetAttr(dataset, "RescaleSlope", 1)
        intercept == GetAttr(dataset, "RescaleIntercept", 0)
    IN  IF do_rescale
          THEN [dtype |-> "float32", shape |-> pixel_array.shape,
                at |-> [idx \in DOMAIN pixel_array.at |->
                           Cast("float32", pixel_array.at[idx]) * slope + intercept]]
          ELSE pixel_array

\* [exc, voxels] of _merge_slice_pixel_arrays
_merge_slice_pixel_arrays(ds, rescale_arg, c_order) ==
    LET do_rescale == RescaleInEffect(ds, rescale_arg)
        first_dataset == ds[1]
        slice_dtype == first_dataset.pixel_array.dtype
        num_slices == Len(ds)
        voxels_dtype == IF do_rescale THEN "float32" ELSE slice_dtype
        slice_shape == IF c_order THEN first_dataset.pixel_array.shape
                       ELSE Transpose(first_dataset.pixel_array).shape
        voxels_shape == IF c_order THEN <<num_slices>> \o slice_shape
                        ELSE slice_shape \o <<num_slices>>
        r == Len(slice_shape)
        KOf(idx) == IF c_order THEN idx[1] ELSE idx[r + 1]
        RestOf(idx) == IF c_order THEN Tail(idx) ELSE SubSeq(idx, 1, r)
    IN  IF \E k \in 1..num_slices :
               ~Broadcastable(SlicePixels(ds[k], do_rescale, c_order).shape, slice_shape)
          THEN [exc |-> ValueError, voxels |-> NoArray]
          ELSE [exc |-> NoException,
                voxels |-> [dtype |-> voxels_dtype, shape |-> voxels_shape,
                            at |-> [idx \in Indices(voxels_shape) |->
                                Cast(voxels_dtype,
                                     BroadcastAt(SlicePixels(ds[KOf(idx) + 1], do_rescale, c_order),
                                                 slice_shape, RestOf(idx)))]]]

-----------------------------------------------------------------------------
(* The affine, in halves *)

\* _slice_spacing taking the differences of the positions in ascending order
\* instead of in list order
_slice_spacing_of_sorted_positions(ds) ==
    IF Len(ds) > 1 THEN Median2(Diff(SortedNumbers(_slice_positions(ds))))
    ELSE 2 * GetAttr(ds[1], "SpacingBetweenSlices", 0)

\* _slice_spacing taking the first difference instead of the median
_slice_spacing_of_first_gap(ds) ==
    IF Len(ds) > 1 THEN 2 * Diff(_slice_positions(ds))[1]
    ELSE 2 * GetAttr(ds[1], "SpacingBetweenSlices", 0)

\* _slice_spacing, in halves
_slice_spacing(ds) ==
    IF Len(ds) > 1 THEN Median2(Diff(_slice_positions(ds)))
    ELSE 2 * GetAttr(ds[1], "SpacingBetweenSlices", 0)

\* the affine with the two pixel spacings taken in the other order
_ijk_to_patient_xyz_transform_matrix_spacings_swapped(ds) ==
    LET first_dataset == ds[1]
        c == _extract_cosines(first_dataset.ImageOrientationPatient)
        column_spacing == first_dataset.PixelSpacing[1]
        row_spacing == first_dataset.PixelSpacing[2]
        slice_spacing == _slice_spacing(ds)
    IN  [i \in 1..4 |->
            IF i = 4 THEN <<0, 0, 0, 2>>
            ELSE << 2 * c.row[i] * column_spacing,
                    2 * c.column[i] * row_spacing,
                    c.slice[i] * slice_spacing,
                    2 * first_dataset.ImagePositionPatient[i] >>]

\* lines 199-215, in halves
_ijk_to_patient_xyz_transform_matrix(ds) ==
    LET first_dataset == ds[1]
        c == _extract_cosines(first_dataset.ImageOrientationPatient)
        row_spacing == first_dataset.PixelSpacing[1]
        column_spacing == first_dataset.PixelSpacing[2]
        slice_spacing == _slice_spacing(ds)
    IN  [i \in 1..4 |->
            IF i = 4 THEN <<0, 0, 0, 2>>
            ELSE << 2 * c.row[i] * column_spacing,
                    2 * c.column[i] * row_spacing,
                    c.slice[i] * slice_spacing,
                    2 * first_dataset.ImagePositionPatient[i] >>]


-----------------------------------------------------------------------------
(* combine_slices as a function of its arguments *)

\* line 100
ImageDatasets(ds) == SelectSeq(ds, LAMBDA d : ~_is_dicomdir(d))

\* the ordering step sorting the numbered datasets and dropping the others
OrderSlices_numbered_subset(ds, by_instance, skip) ==
    LET numbered == SelectSeq(ds, LAMBDA d : HasAttr(d, "InstanceNumber"))
    IN  IF skip THEN [exc |-> NoException, val |-> ds]
        ELSE IF by_instance
          THEN IF numbered = <<>>
                 THEN [exc |-> MissingInstanceNumberException, val |-> <<>>]
                 ELSE [exc |-> NoException, val |-> sort_by_instance_number(numbered)]
        ELSE [exc |-> NoException, val |-> sort_by_slice_position(ds)]

\* the ordering step testing sort_by_instance before skip_sorting
OrderSlices_instance_first(ds, by_instance, skip) ==
    IF by_instance
      THEN IF sort_by_instance_number_raises(ds)
             THEN [exc |-> MissingInstanceNumberException, val |-> <<>>]
             ELSE [exc |-> NoException, val |-> sort_by_instance_number(ds)]
    ELSE IF skip THEN [exc |-> NoException, val |-> ds]
    ELSE [exc |-> NoException, val |-> sort_by_slice_position(ds)]

\* lines 105-110: [exc, val]
OrderSlices(ds, by_instance, skip) ==
    IF skip THEN [exc |-> NoException, val |-> ds]
    ELSE IF by_instance
      THEN IF sort_by_instance_number_raises(ds)
             THEN [exc |-> MissingInstanceNumberException, val |-> <<>>]
             ELSE [exc |-> NoException, val |-> sort_by_instance_number(ds)]
    ELSE [exc |-> NoException, val |-> sort_by_slice_position(ds)]

NoTransform == <<>>

\* [exc, voxels, transform]: the exception raised, or the two-tuple returned
combine_slices(ds, rescale_arg, enforce, by_instance, skip, c_order) ==
    LET Raise(e) == [exc |-> e, voxels |-> NoArray, transform |-> NoTransform]
        images == ImageDatasets(ds)
        ordered == OrderSlices(images, by_instance, skip)
        checked == _validate_slices_form_uniform_grid(ordered.val, enforce)
        merged == _merge_slice_pixel_arrays(ordered.val, rescale_arg, c_order)
    IN  IF Len(images) = 0 THEN Raise(DicomImportException("empty", ""))
        ELSE IF ordered.exc # NoException THEN Raise(ordered.exc)
        ELSE IF checked.exc # NoException THEN Raise(checked.exc)
        ELSE IF merged.exc # NoException THEN Raise(merged.exc)
        ELSE [exc |-> NoException, voxels |-> merged.voxels,
              transform |-> _ijk_to_patient_xyz_transform_matrix(ordered.val)]

-----------------------------------------------------------------------------------------------------------------------------------------------------
(* The inputs: the lists and arguments a caller may pass *)

\* a pixel buffer of the given shape whose values start at seed
Pixels(dtype, shape, seed) ==
    [dtype |-> dtype, shape |-> shape,
     at |-> [idx \in Indices(shape) |->
                seed + idx[2] + (IF Len(shape) = 3 THEN 3 * idx[3] ELSE 0)]]

\* an image dataset as the tests build it
MockSlice(pixel_array, position, image_orientation) ==
    [pixel_array |-> pixel_array,
     SeriesInstanceUID |-> "arbitrary uid",
     SOPClassUID |-> "arbitrary sopclass uid",
     PixelSpacing |-> <<1, 1>>,
     Rows |-> pixel_array.shape[1],
     Columns |-> pixel_array.shape[2],
     SamplesPerPixel |-> IF Len(pixel_array.shape) = 2 THEN 1 ELSE pixel_array.shape[3],
     Modality |-> "MR",
     ImagePositionPatient |-> position,
     ImageOrientationPatient |-> image_orientation]

\* setattr(self, k, v)
WithAttr(ds, name, value) == (name :> value) @@ ds

SeqsUpTo(S, n) == UNION {[1..m -> S] : m \in 0..n}

AxialOrientation == <<1, 0, 0, 0, 1, 0>>

(* Lists of slices that differ in position only.  A geometry is the shared *)
(* orientation and the axis the slices are displaced along: along the      *)
(* slice cosine (axial along z, sagittal along x), or inside the image     *)
(* plane (axial along x).                                                  *)
GridGeometries ==
    { [iop |-> AxialOrientation, axis |-> <<0, 0, 1>>],
      [iop |-> <<0, 1, 0, 0, 0, 1>>, axis |-> <<1, 0, 0>>],
      [iop |-> AxialOrientation, axis |-> <<1, 0, 0>>] }

\* how the slices of a list are numbered: not at all, or with an
\* InstanceNumber that falls or rises with the position
GridNumberings(g) ==
    IF g.axis = <<0, 0, 1>> THEN {"none", "falling", "rising"} ELSE {"none"}

GridSlice(g, numbering, z) ==
    LET base == MockSlice(Pixels("uint16", <<1, 2>>, 10 * z),
                          <<z * g.axis[1], z * g.axis[2], z * g.axis[3]>>, g.iop)
    IN  IF numbering = "none" THEN base
        ELSE WithAttr(base, "InstanceNumber", IF numbering = "falling" THEN MaxPos - z ELSE z)

InitGrid ==
    /\ \E g \in GridGeometries, zs \in SeqsUpTo(0..MaxPos, MaxSlices) :
         \E numbering \in GridNumberings(g) :
           datasets = [k \in 1..Len(zs) |-> GridSlice(g, numbering, zs[k])]
    /\ rescale = "None"
    /\ enforce_slice_spacing \in BOOLEAN
    /\ sort_by_instance \in BOOLEAN
    /\ skip_sorting \in BOOLEAN
    /\ c_order_axes = FALSE

(* Lists of axial slices with and without an InstanceNumber; slices that   *)
(* differ in position or InstanceNumber differ in their pixels.            *)
InstanceSlice(z, inst) ==
    LET n == IF inst = <<>> THEN 0 ELSE inst[1] + 1
        base == MockSlice(Pixels("uint16", <<1, 2>>, 10 * z + 100 * n),
                          <<0, 0, z>>, AxialOrientation)
    IN  IF inst = <<>> THEN base ELSE WithAttr(base, "InstanceNumber", inst[1])

InstanceCatalogue ==
    { InstanceSlice(z, inst) :
        z \in 0..MaxInstancePos, inst \in {<<>>} \cup {<<i>> : i \in 0..MaxInstance} }

InitInstance ==
    /\ datasets \in SeqsUpTo(InstanceCatalogue, MaxInstanceSlices)
    /\ rescale = "None"
    /\ enforce_slice_spacing \in BOOLEAN
    /\ sort_by_instance \in BOOLEAN
    /\ skip_sorting \in BOOLEAN
    /\ c_order_axes = FALSE

(* Lists that hold DICOMDIR datasets (an image dataset's attributes plus   *)
(* the DICOMDIR media storage class, as the test builds one) among image   *)
(* datasets, one of which names another media storage class.               *)
DicomdirCatalogue ==
    { InstanceSlice(z, inst) : z \in 0..MaxInstancePos, inst \in {<<>>, <<0>>} }
    \cup { WithAttr(InstanceSlice(z, <<>>), "MediaStorageSOPClassUID", DICOMDIR_UID) :
             z \in 0..MaxInstancePos }
    \cup { WithAttr(InstanceSlice(0, <<1>>), "MediaStorageSOPClassUID",
                    "1.2.840.10008.5.1.4.1.1.4") }

InitDicomdir ==
    /\ datasets \in SeqsUpTo(DicomdirCatalogue, MaxInstanceSlices)
    /\ rescale = "None"
    /\ enforce_slice_spacing \in BOOLEAN
    /\ sort_by_instance \in BOOLEAN
    /\ skip_sorting \in BOOLEAN
    /\ c_order_axes = FALSE

(* Evenly spaced axial lists whose slices differ in storage format and in  *)
(* the rescale attributes they carry; the buffers are grey (rows, columns) *)
(* or colour (rows, columns, channels).  pydicom derives the dtype of      *)
(* pixel_array from BitsAllocated and PixelRepresentation.                 *)
RescaleChoices ==
    { [slope |-> s, intercept |-> i] : s \in {<<>>, <<2>>}, i \in {<<>>, <<3>>} }

MergeSlice(shape, z, bits, r) ==
    LET dtype == IF bits = 8 THEN "uint8" ELSE "uint16"
        a == MockSlice(Pixels(dtype, shape, 10 * (z + 1)), <<0, 0, z>>, AxialOrientation)
        b == WithAttr(WithAttr(a, "BitsAllocated", bits), "PixelRepresentation", 0)
        c == IF r.slope = <<>> THEN b ELSE WithAttr(b, "RescaleSlope", r.slope[1])
    IN  IF r.intercept = <<>> THEN c ELSE WithAttr(c, "RescaleIntercept", r.intercept[1])

InitMerge ==
    /\ \E shape \in {<<1, 2>>, <<1, 2, 3>>},
          choice \in SeqsUpTo({8, 16} \X RescaleChoices, MaxMergeSlices) :
           datasets = [k \in 1..Len(choice) |->
                          MergeSlice(shape, k - 1, choice[k][1], choice[k][2])]
    /\ rescale \in {"None", "True", "False"}
    /\ enforce_slice_spacing = TRUE
    /\ sort_by_instance = FALSE
    /\ skip_sorting = FALSE
    /\ c_order_axes \in BOOLEAN

(* Axial lists whose Rows and Columns agree while the pixel buffers differ *)
(* in shape, as the buffers of multi-frame and single-frame datasets of    *)
(* one series do: the mock takes any keyword as an attribute.              *)
ShapeSlice(z, shape) ==
    WithAttr(MockSlice(Pixels("uint16", <<2, 2>>, 10 * (z + 1)), <<0, 0, z>>, AxialOrientation),
             "pixel_array", Pixels("uint16", shape, 10 * (z + 1)))

InitShape ==
    /\ \E shapes \in SeqsUpTo({<<2, 2>>, <<1, 2>>, <<3, 2>>}, MaxShapeSlices) :
           datasets = [k \in 1..Len(shapes) |-> ShapeSlice(k - 1, shapes[k])]
    /\ rescale = "None"
    /\ enforce_slice_spacing = TRUE
    /\ sort_by_instance = FALSE
    /\ skip_sorting = FALSE
    /\ c_order_axes \in BOOLEAN

(* Lists that break several checks at once: slices of another series and   *)
(* modality lying in another plane, a slice with other Rows, a slice whose *)
(* row and column cosines coincide, among axial slices at uneven steps;    *)
(* every order of the slices is passed, and kept with skip_sorting.        *)
AttrSlice(z) == MockSlice(Pixels("uint16", <<1, 2>>, 10 * z), <<0, 0, z>>, AxialOrientation)

AttrCatalogue ==
    { AttrSlice(0), AttrSlice(1), AttrSlice(3),
      WithAttr(WithAttr(WithAttr(AttrSlice(1), "Modality", "CT"),
                        "SeriesInstanceUID", "another uid"),
               "ImageOrientationPatient", <<0, 1, 0, 0, 0, 1>>),
      WithAttr(AttrSlice(1), "Rows", 7),
      WithAttr(AttrSlice(0), "ImageOrientationPatient", <<1, 0, 0, 1, 0, 0>>) }

InitAttr ==
    /\ datasets \in SeqsUpTo(AttrCatalogue, MaxAttrSlices)
    /\ rescale = "None"
    /\ enforce_slice_spacing \in BOOLEAN
    /\ sort_by_instance = FALSE
    /\ skip_sorting = TRUE
    /\ c_order_axes = FALSE

(* Lists of one plane with unequal pixel spacings and, as the single slice *)
(* test sets it, a SpacingBetweenSlices of either sign.                    *)
AffineSlice(g, z, spacing, hint) ==
    LET a == WithAttr(GridSlice(g, "none", z), "PixelSpacing", spacing)
    IN  IF hint = <<>> THEN a ELSE WithAttr(a, "SpacingBetweenSlices", hint[1])

InitAffine ==
    /\ \E g \in GridGeometries, zs \in SeqsUpTo({0, 1, 3}, MaxAffineSlices),
          spacing \in {<<1, 1>>, <<2, 3>>}, hint \in {<<>>, <<5>>, <<-5>>} :
           datasets = [k \in 1..Len(zs) |-> AffineSlice(g, zs[k], spacing, hint)]
    /\ rescale = "None"
    /\ enforce_slice_spacing = FALSE
    /\ sort_by_instance = FALSE
    /\ skip_sorting \in BOOLEAN
    /\ c_order_axes \in BOOLEAN

Init ==
    /\ \/ InitGrid \/ InitInstance \/ InitDicomdir \/ InitMerge
       \/ InitShape \/ InitAttr \/ InitAffine
    /\ pc = "start"
    /\ slice_datasets = <<>>
    /\ sorted_datasets = <<>>
    /\ voxels = NoArray
    /\ transform = NoTransform
    /\ raised = NoException
    /\ warnings = {}
    /\ allocated = FALSE
    /\ unit = 1
    /\ orientations = <<>>
    /\ verdict = <<>>

-----------------------------------------------------------------------------
(* The steps of combine_slices *)

args == <<datasets, rescale, enforce_slice_spacing, sort_by_instance,
          skip_sorting, c_order_axes>>

\* what combine_slices never touches
orientation_check == <<unit, orientations, verdict>>

\* lines 100-103
Filter ==
    /\ pc = "start"
    /\ slice_datasets' = ImageDatasets(datasets)
    /\ IF Len(slice_datasets') = 0
         THEN pc' = "raised" /\ raised' = DicomImportException("empty", "")
         ELSE pc' = "filtered" /\ UNCHANGED raised
    /\ UNCHANGED <<args, sorted_datasets, voxels, transform, warnings, allocated, orientation_check>>

\* the ordering step sorting the list it was given in place, as list.sort
\* would, instead of building a sorted copy
Order_in_place ==
    /\ pc = "filtered"
    /\ LET r == OrderSlices(slice_datasets, sort_by_instance, skip_sorting)
       IN  /\ sorted_datasets' = r.val
           /\ datasets' = IF r.exc = NoException THEN r.val ELSE datasets
           /\ raised' = r.exc
           /\ pc' = IF r.exc = NoException THEN "sorted" ELSE "raised"
    /\ UNCHANGED <<rescale, enforce_slice_spacing, sort_by_instance, skip_sorting,
                   c_order_axes, slice_datasets, voxels, transform, warnings,
                   allocated, orientation_check>>

\* lines 105-110
Order ==
    /\ pc = "filtered"
    /\ LET r == OrderSlices(slice_datasets, sort_by_instance, skip_sorting)
       IN  /\ sorted_datasets' = r.val
           /\ raised' = r.exc
           /\ pc' = IF r.exc = NoException THEN "sorted" ELSE "raised"
    /\ UNCHANGED <<args, slice_datasets, voxels, transform, warnings, allocated, orientation_check>>

\* line 112
Validate ==
    /\ pc = "sorted"
    /\ LET r == _validate_slices_form_uniform_grid(sorted_datasets, enforce_slice_spacing)
       IN  /\ raised' = r.exc
           /\ warnings' = r.warnings
           /\ pc' = IF r.exc = NoException THEN "validated" ELSE "raised"
    /\ UNCHANGED <<args, slice_datasets, sorted_datasets, voxels, transform, allocated, orientation_check>>

\* line 114
Merge ==
    /\ pc = "validated"
    /\ LET r == _merge_slice_pixel_arrays(sorted_datasets, rescale, c_order_axes)
       IN  /\ raised' = r.exc
           /\ voxels' = r.voxels
           /\ pc' = IF r.exc = NoException THEN "merged" ELSE "raised"
    /\ allocated' = TRUE
    /\ UNCHANGED <<args, slice_datasets, sorted_datasets, transform, warnings, orientation_check>>

\* lines 115-117
Transform ==
    /\ pc = "merged"
    /\ transform' = _ijk_to_patient_xyz_transform_matrix(sorted_datasets)
    /\ pc' = "returned"
    /\ UNCHANGED <<args, slice_datasets, sorted_datasets, voxels, raised, warnings, allocated, orientation_check>>

Next == Filter \/ Order \/ Validate \/ Merge \/ Transform

Spec == Init /\ [][Next]_vars

-----------------------------------------------------------------------------
(* The orientation checks on cosines that are off by less than the         *)
(* tolerances.  The checks are functions of the orientation vectors, and   *)
(* are applied here to vectors counted in 1/10000 (the first slice's       *)
(* check, tolerances 1e-4 and 1e-8 on the dot product and the norms) and   *)
(* in 1/1000000 (the comparison of a slice with the first, tolerance 1e-5).*)

\* row = (1 + a1, 0, a3), column = (0, 1 + b2, b3) in 1/10000
NearAxialOrientations ==
    { <<10000 + a1, 0, a3, 0, 10000 + b2, b3>> :
        a1 \in -2..2, a3 \in {0, 1, 2, 100, 101},
        b2 \in -2..2, b3 \in {0, 1, 2, 100, 101} }

\* (1 + d, e, 0, 0, 1, 0) in 1/1000000
NearlyEqualOrientations ==
    { <<1000000 + d, e, 0, 0, 1000000, 0>> :
        d \in {-21, -20, -15, -10, 0, 10, 15, 20, 21}, e \in {-11, -10, 0, 10, 11} }

InitOrientation ==
    /\ \/ /\ unit = 10000
          /\ \E o \in NearAxialOrientations : orientations = <<o>>
       \/ /\ unit = 1000000
          /\ \E o \in NearlyEqualOrientations :
                \/ orientations = << <<1000000, 0, 0, 0, 1000000, 0>>, o >>
                \/ orientations = << o, <<1000000, 0, 0, 0, 1000000, 0>> >>
    /\ verdict = <<>>
    /\ pc = "orientation"
    /\ datasets = <<>>
    /\ rescale = "None"
    /\ enforce_slice_spacing \in BOOLEAN
    /\ sort_by_instance = FALSE
    /\ skip_sorting = FALSE
    /\ c_order_axes = FALSE
    /\ slice_datasets = <<>>
    /\ sorted_datasets = <<>>
    /\ voxels = NoArray
    /\ transform = NoTransform
    /\ raised = NoException
    /\ warnings = {}
    /\ allocated = FALSE

combine_slices_state == <<args, pc, slice_datasets, sorted_datasets, voxels, transform,
                          raised, warnings, allocated>>

\* line 242 on the orientation of the first slice
CheckOrientation ==
    /\ verdict = <<>> /\ Len(orientations) = 1
    /\ verdict' = _validate_image_orientation_scaled(unit, orientations[1])
    /\ UNCHANGED <<unit, orientations, combine_slices_state>>

\* line 243 on the orientations of the first slice and another, followed by
\* lines 245-247 on slices at one position
CompareOrientations ==
    /\ verdict = <<>> /\ Len(orientations) = 2
    /\ LET ds == [k \in 1..2 |-> [ImageOrientationPatient |-> orientations[k]]]
           m == IF enforce_slice_spacing THEN _check_for_missing_slices(<<0, 0>>)
                ELSE [exc |-> NoException, warnings |-> {}]
       IN  verdict' =
             IF _slice_ndarray_attribute_differs_scaled(unit, ds, "ImageOrientationPatient",
                                                        100000)
               THEN [exc |-> DicomImportException("orientation", "ImageOrientationPatient"),
                     warnings |-> {}]
               ELSE [exc |-> m.exc, warnings |-> m.warnings]
    /\ UNCHANGED <<unit, orientations, combine_slices_state>>

NextOrientation == CheckOrientation \/ CompareOrientations

SpecOrientation == InitOrientation /\ [][NextOrientation]_vars

-----------------------------------------------------------------------------
(* What the claims speak of, written from the DICOM attributes alone *)

Terminal == pc \in {"returned", "raised"}

TheResult == [exc |-> raised, voxels |-> voxels, transform |-> transform]

\* the stepwise run ends as the function of the arguments says
RunMatchesFunction ==
    Terminal => TheResult = combine_slices(datasets, rescale, enforce_slice_spacing,
                                           sort_by_instance, skip_sorting, c_order_axes)

IsDirectoryRecord(d) ==
    /\ "MediaStorageSOPClassUID" \in DOMAIN d
    /\ d.MediaStorageSOPClassUID = "1.2.840.10008.1.3.10"

\* the caller's image datasets, in the caller's order
ImagesOf(ds) == SelectSeq(ds, LAMBDA d : ~IsDirectoryRecord(d))

\* the slice position scalar: the position projected on row x column
ScalarPosition(d) ==
    LET o == d.ImageOrientationPatient
        p == d.ImagePositionPatient
    IN  (o[2] * o[6] - o[3] * o[5]) * p[1]
        + (o[3] * o[4] - o[1] * o[6]) * p[2]
        + (o[1] * o[5] - o[2] * o[4]) * p[3]

DistinctPositions(ds) ==
    \A i, j \in 1..Len(ds) : i # j => ScalarPosition(ds[i]) # ScalarPosition(ds[j])

SameOrientation(ds) ==
    \A i \in 1..Len(ds) : ds[i].ImageOrientationPatient = ds[1].ImageOrientationPatient

\* the length of the slice axis of the merged array
SliceAxisLength == IF c_order_axes THEN voxels.shape[1] ELSE voxels.shape[Len(voxels.shape)]

\* the values of the merged array at slice index k (0-based), by in-slice index
VoxelSlice(k) ==
    LET inner == IF c_order_axes THEN Tail(voxels.shape)
                 ELSE SubSeq(voxels.shape, 1, Len(voxels.shape) - 1)
    IN  [idx \in Indices(inner) |->
            IF c_order_axes THEN voxels.at[<<k>> \o idx] ELSE voxels.at[idx \o <<k>>]]

\* the stored pixels of a dataset as they lie in one slice of the merged
\* array: as stored in slice-major layout, axes reversed in slice-minor
StoredPixels(d) ==
    IF c_order_axes THEN d.pixel_array.at
    ELSE [idx \in Indices(Reverse(d.pixel_array.shape)) |-> d.pixel_array.at[Reverse(idx)]]

\* rescaling is in effect: asked for, or left open with some image dataset
\* carrying a slope or an intercept
RescalingApplies ==
    \/ rescale = "True"
    \/ /\ rescale = "None"
       /\ \E k \in 1..Len(ImagesOf(datasets)) :
              \/ "RescaleSlope" \in DOMAIN ImagesOf(datasets)[k]
              \/ "RescaleIntercept" \in DOMAIN ImagesOf(datasets)[k]

\* what the slice of the merged array that belongs to dataset d holds: the
\* stored pixels, times slope plus intercept when rescaling is in effect
ExpectedSlice(d) ==
    LET slope == IF "RescaleSlope" \in DOMAIN d THEN d.RescaleSlope ELSE 1
        intercept == IF "RescaleIntercept" \in DOMAIN d THEN d.RescaleIntercept ELSE 0
        laid == IF c_order_axes THEN d.pixel_array.shape ELSE Reverse(d.pixel_array.shape)
        slot == IF c_order_axes THEN Tail(voxels.shape)
                ELSE SubSeq(voxels.shape, 1, Len(voxels.shape) - 1)
        \* an axis of length 1 is repeated along the slot's axis
        From(idx) == [i \in 1..Len(laid) |-> IF laid[i] = 1 THEN 0 ELSE idx[i]]
    IN  [idx \in Indices(slot) |->
            IF RescalingApplies THEN StoredPixels(d)[From(idx)] * slope + intercept
            ELSE StoredPixels(d)[From(idx)]]

\* M . v for the affine kept in halves: twice the product
AffineApply2(M, v) ==
    [i \in 1..4 |-> M[i][1] * v[1] + M[i][2] * v[2] + M[i][3] * v[3] + M[i][4] * v[4]]

\* M . [0,0,k,1] is the recorded position of dataset d
MapsIndexTo(k, d) ==
    AffineApply2(transform, <<0, 0, k, 1>>)
        = << 2 * d.ImagePositionPatient[1], 2 * d.ImagePositionPatient[2],
             2 * d.ImagePositionPatient[3], 2 >>

Rearrangements(n) == {p \in [1..n -> 1..n] : \A i, j \in 1..n : i # j => p[i] # p[j]}

-----------------------------------------------------------------------------
(* C1 *)

\* the ordered slices advance by one constant step along the slice cosine:
\* slice k lies at P0 + k * d * (row x column)
EvenlyStacked(ds) ==
    LET o == ds[1].ImageOrientationPatient
        n == << o[2] * o[6] - o[3] * o[5], o[3] * o[4] - o[1] * o[6],
                o[1] * o[5] - o[2] * o[4] >>
        Step(k) == [i \in 1..3 |-> ds[k + 1].ImagePositionPatient[i]
                                   - ds[k].ImagePositionPatient[i]]
        d == Step(1)[1] * n[1] + Step(1)[2] * n[2] + Step(1)[3] * n[3]
    IN  Len(ds) > 1 =>
          /\ \A k \in 1..(Len(ds) - 1) : Step(k) = Step(1)
          /\ Step(1) = <<d * n[1], d * n[2], d * n[3]>>

\* C1 as stated: whenever combine_slices returns, under any ordering and with
\* spacing enforcement on or off, the affine maps [0,0,k,1] to the recorded
\* position of the slice at index k of the merged array, for every k.
C1_RoundTripEveryList ==
    pc = "returned" =>
        \A k \in 0..(Len(sorted_datasets) - 1) : MapsIndexTo(k, sorted_datasets[k + 1])

\* C1 amended: whenever combine_slices returns, the affine maps [0,0,0,1] to
\* the position of the slice at index 0; it maps [0,0,k,1] to the position
\* of the slice at index k for every k when the ordered slices advance by one
\* constant step along the slice cosine.
C1_RoundTripEvenStack ==
    pc = "returned" =>
        /\ MapsIndexTo(0, sorted_datasets[1])
        /\ EvenlyStacked(sorted_datasets) =>
             \A k \in 0..(Len(sorted_datasets) - 1) : MapsIndexTo(k, sorted_datasets[k + 1])

\* three or more slices a nonzero step apart, stacked against the slice
\* cosine, were merged and the affine built
C1_Witness ==
    /\ pc = "returned"
    /\ Len(sorted_datasets) >= 3
    /\ EvenlyStacked(sorted_datasets)
    /\ ScalarPosition(sorted_datasets[2]) < ScalarPosition(sorted_datasets[1])

-----------------------------------------------------------------------------
(* C2 *)

\* C2: whenever combine_slices returns under the spatial or the instance
\* ordering, the public sort function of that ordering, applied to the same
\* input list, returns the permutation used internally: as many datasets as
\* the merged array has slices, its k-th the dataset whose pixels are at
\* slice index k, its first the dataset whose position is the affine's
\* translation column.
C2_SortFunctionIsLookup ==
    (pc = "returned" /\ ~skip_sorting) =>
        IF sort_by_instance /\ sort_by_instance_number_raises(datasets) THEN FALSE
        ELSE LET lookup == IF sort_by_instance THEN sort_by_instance_number(datasets)
                           ELSE sort_by_slice_position(datasets)
             IN  /\ Len(lookup) = SliceAxisLength
                 /\ \A k \in 0..(SliceAxisLength - 1) : VoxelSlice(k) = ExpectedSlice(lookup[k + 1])
                 /\ MapsIndexTo(0, lookup[1])

-----------------------------------------------------------------------------
(* C3 *)

\* what combine_slices makes of the caller's list rearranged by p
ResultOfRearranged(p) ==
    combine_slices([k \in 1..Len(datasets) |-> datasets[p[k]]], rescale,
                   enforce_slice_spacing, sort_by_instance, skip_sorting, c_order_axes)

\* C3 as stated: for any list that combine_slices accepts under the spatial
\* ordering, every rearrangement of the list gives the same volume and the
\* same affine.
C3_OrderIndependentEveryList ==
    (pc = "returned" /\ ~skip_sorting /\ ~sort_by_instance) =>
        \A p \in Rearrangements(Len(datasets)) : ResultOfRearranged(p) = TheResult

\* C3 amended: for any list that combine_slices accepts under the spatial
\* ordering, whose slices share one orientation vector and have pairwise
\* distinct slice position scalars, every rearrangement of the list gives
\* the same volume and the same affine.
C3_OrderIndependentDistinct ==
    (/\ pc = "returned" /\ ~skip_sorting /\ ~sort_by_instance
     /\ SameOrientation(ImagesOf(datasets))
     /\ DistinctPositions(ImagesOf(datasets))) =>
        \A p \in Rearrangements(Len(datasets)) : ResultOfRearranged(p) = TheResult

\* three slices at distinct positions, passed out of order, were merged
C3_Witness ==
    /\ pc = "returned" /\ ~skip_sorting /\ ~sort_by_instance
    /\ Len(datasets) >= 3
    /\ DistinctPositions(ImagesOf(datasets))
    /\ ScalarPosition(datasets[1]) > ScalarPosition(datasets[2])
    /\ sorted_datasets # datasets

-----------------------------------------------------------------------------
(* C4 *)

\* the slice position scalars of a list of distinct positions, ascending
AscendingPositions(ds) ==
    LET P == {ScalarPosition(ds[i]) : i \in 1..Len(ds)}
    IN  CHOOSE s \in [1..Cardinality(P) -> P] :
            \A i \in 1..(Cardinality(P) - 1) : s[i] < s[i + 1]

\* the list is an evenly spaced list (spacing d > 0) that lost one or more
\* slices from between its first and its last
MissingInterior(ds) ==
    /\ Len(ds) >= 2
    /\ DistinctPositions(ds)
    /\ LET s == AscendingPositions(ds)
           span == s[Len(s)] - s[1]
       IN  \E d \in 1..span :
               /\ \A i \in 1..Len(s) : (s[i] - s[1]) % d = 0
               /\ (span \div d) + 1 > Len(ds)

\* some gap between neighbouring slices differs from the first gap by more
\* than a tenth of the first gap
UnevenGaps(ds) ==
    LET s == AscendingPositions(ds)
    IN  \E i \in 1..(Len(s) - 1) :
            10 * Abs((s[i + 1] - s[i]) - (s[2] - s[1])) > Abs(s[2] - s[1])

\* one series: equal series and storage attributes, one orientation of two
\* perpendicular unit vectors
ValidSeries(ds) ==
    /\ \A i \in 1..Len(ds) :
         \A a \in {"Modality", "SOPClassUID", "SeriesInstanceUID", "Rows", "Columns",
                   "SamplesPerPixel", "PixelSpacing", "PixelRepresentation", "BitsAllocated"} :
             /\ a \in DOMAIN ds[i] <=> a \in DOMAIN ds[1]
             /\ a \in DOMAIN ds[i] => ds[i][a] = ds[1][a]
    /\ SameOrientation(ds)
    /\ LET o == ds[1].ImageOrientationPatient
       IN  /\ o[1] * o[4] + o[2] * o[5] + o[3] * o[6] = 0
           /\ o[1] * o[1] + o[2] * o[2] + o[3] * o[3] = 1
           /\ o[4] * o[4] + o[5] * o[5] + o[6] * o[6] = 1

MissingSlicesError ==
    [type |-> "DicomImportException", reason |-> "missing slices", property |-> ""]

AllNumbered(ds) == \A i \in 1..Len(ds) : "InstanceNumber" \in DOMAIN ds[i]

\* the ordering step cannot fail: spatial, skipped, or every image numbered
OrderingCannotFail ==
    skip_sorting \/ ~sort_by_instance \/ AllNumbered(ImagesOf(datasets))

\* C4 as stated: for an evenly spaced list that lost one or more interior
\* slices, combine_slices raises the missing-slice error when spacing is
\* enforced, and returns a volume of as many slices as remain when it is not.
C4_EveryGapDetected ==
    (/\ Terminal /\ OrderingCannotFail /\ Len(ImagesOf(datasets)) >= 2
     /\ ValidSeries(ImagesOf(datasets)) /\ MissingInterior(ImagesOf(datasets))) =>
        IF enforce_slice_spacing THEN raised = MissingSlicesError
        ELSE pc = "returned" /\ SliceAxisLength = Len(ImagesOf(datasets))

\* C4 amended: for an evenly spaced list that lost one or more interior
\* slices, combine_slices with spacing enforced raises the missing-slice
\* error exactly when some gap between neighbouring remaining slices differs
\* from the first gap by more than a tenth of it (as when one slice of four
\* or more is lost), and returns the volume when the remaining slices are
\* evenly spaced again; with spacing not enforced it returns a volume of as
\* many slices as remain.
C4_UnevenGapDetected ==
    (/\ Terminal /\ OrderingCannotFail /\ Len(ImagesOf(datasets)) >= 2
     /\ ValidSeries(ImagesOf(datasets)) /\ MissingInterior(ImagesOf(datasets))) =>
        /\ pc = "returned" => SliceAxisLength = Len(ImagesOf(datasets))
        /\ IF enforce_slice_spacing
             THEN IF UnevenGaps(ImagesOf(datasets)) THEN raised = MissingSlicesError
                  ELSE pc = "returned"
             ELSE pc = "returned"

\* three slices that remain of four evenly spaced ones were rejected
C4_Witness ==
    /\ pc = "raised" /\ raised = MissingSlicesError /\ enforce_slice_spacing
    /\ Len(ImagesOf(datasets)) = 3
    /\ MissingInterior(ImagesOf(datasets))
    /\ LET s == AscendingPositions(ImagesOf(datasets)) IN s[3] - s[1] = 3

-----------------------------------------------------------------------------
(* C5 *)

\* wherever the slice position scalar increases, the InstanceNumber decreases
NumbersFallWithPosition(ds) ==
    /\ AllNumbered(ds)
    /\ \A i, j \in 1..Len(ds) :
           ScalarPosition(ds[i]) < ScalarPosition(ds[j])
               => ds[i].InstanceNumber > ds[j].InstanceNumber

ResultOfSpatialOrdering ==
    combine_slices(datasets, rescale, enforce_slice_spacing, FALSE, FALSE, c_order_axes)

\* C5 as stated: for any accepted list whose InstanceNumber values decrease
\* in order of increasing slice position scalar, sort_by_instance=True and
\* the spatial ordering return the same merged volume.
C5_InstanceAgreesEveryList ==
    (/\ pc = "returned" /\ sort_by_instance /\ ~skip_sorting
     /\ NumbersFallWithPosition(ImagesOf(datasets))) =>
        /\ ResultOfSpatialOrdering.exc = NoException
        /\ ResultOfSpatialOrdering.voxels = voxels

\* C5 amended: for any accepted list whose slice position scalars are
\* pairwise distinct and whose InstanceNumber values strictly decrease in
\* order of increasing slice position scalar, sort_by_instance=True and the
\* spatial ordering return the same merged volume.
C5_InstanceAgreesDistinct ==
    (/\ pc = "returned" /\ sort_by_instance /\ ~skip_sorting
     /\ NumbersFallWithPosition(ImagesOf(datasets))
     /\ DistinctPositions(ImagesOf(datasets))) =>
        /\ ResultOfSpatialOrdering.exc = NoException
        /\ ResultOfSpatialOrdering.voxels = voxels

\* three numbered slices at distinct positions, passed out of order, were
\* merged by InstanceNumber
C5_Witness ==
    /\ pc = "returned" /\ sort_by_instance /\ ~skip_sorting
    /\ Len(datasets) >= 3
    /\ NumbersFallWithPosition(ImagesOf(datasets))
    /\ DistinctPositions(ImagesOf(datasets))
    /\ sorted_datasets # datasets

-----------------------------------------------------------------------------
(* C6 *)

IsRearrangement(a, b) ==
    /\ Len(a) = Len(b)
    /\ \E p \in Rearrangements(Len(a)) : \A k \in 1..Len(a) : a[k] = b[p[k]]

\* C6: with sort_by_instance=True and skip_sorting unset, a list in which
\* some image dataset lacks an InstanceNumber fails with
\* MissingInstanceNumberException and no volume is made; when every image
\* dataset has one and the call returns, the slices of the volume are the
\* image datasets in order of descending InstanceNumber.
C6_AllOrNothing ==
    (/\ Terminal /\ sort_by_instance /\ ~skip_sorting
     /\ Len(ImagesOf(datasets)) > 0) =>
        IF ~AllNumbered(ImagesOf(datasets))
          THEN /\ pc = "raised"
               /\ raised.type = "MissingInstanceNumberException"
               /\ voxels = NoArray
          ELSE pc = "returned" =>
               /\ IsRearrangement(sorted_datasets, ImagesOf(datasets))
               /\ \A k \in 1..(Len(sorted_datasets) - 1) :
                      sorted_datasets[k].InstanceNumber >= sorted_datasets[k + 1].InstanceNumber
               /\ SliceAxisLength = Len(sorted_datasets)
               /\ \A k \in 0..(SliceAxisLength - 1) :
                      VoxelSlice(k) = ExpectedSlice(sorted_datasets[k + 1])

\* a list of a numbered and an unnumbered slice was refused
C6_Witness ==
    /\ pc = "raised" /\ sort_by_instance /\ ~skip_sorting
    /\ raised.type = "MissingInstanceNumberException"
    /\ \E i, j \in 1..Len(ImagesOf(datasets)) :
           /\ "InstanceNumber" \in DOMAIN ImagesOf(datasets)[i]
           /\ "InstanceNumber" \notin DOMAIN ImagesOf(datasets)[j]

-----------------------------------------------------------------------------
(* C7 *)

-----------------------------------------------------------------------------
(* C8 *)

ResultWithoutDirectoryRecords ==
    combine_slices(ImagesOf(datasets), rescale, enforce_slice_spacing,
                   sort_by_instance, skip_sorting, c_order_axes)

EmptyInputError ==
    [type |-> "DicomImportException", reason |-> "empty", property |-> ""]

\* C8: the outcome of combine_slices on a list (volume and affine, or the
\* error) is its outcome on the list with every DICOMDIR dataset removed,
\* wherever they sit, every other dataset making a slice; an empty list and a list of DICOMDIR datasets only
\* both raise the empty-input error.
C8_DicomdirIgnored ==
    Terminal =>
        /\ TheResult = ResultWithoutDirectoryRecords
        /\ pc = "returned" => SliceAxisLength = Len(ImagesOf(datasets))
        /\ Len(ImagesOf(datasets)) = 0 => (pc = "raised" /\ raised = EmptyInputError)

\* a list that starts with a DICOMDIR dataset was merged
C8_Witness ==
    /\ pc = "returned"
    /\ Len(datasets) >= 2
    /\ IsDirectoryRecord(datasets[1])
    /\ SliceAxisLength = Len(datasets) - 1

-----------------------------------------------------------------------------
(* C9 *)

\* C9: rescaling is in effect iff rescale is True, or rescale is None and
\* some slice carries RescaleSlope or RescaleIntercept; then the output is
\* float32 and every voxel of slice k is pixel * slope_k + intercept_k, a
\* missing slope counting as 1 and a missing intercept as 0; otherwise the
\* output has the first slice's dtype and holds the stored pixel values.
C9_RescaleResolution ==
    pc = "returned" =>
        /\ voxels.dtype = IF RescalingApplies THEN "float32"
                          ELSE sorted_datasets[1].pixel_array.dtype
        /\ SliceAxisLength = Len(sorted_datasets)
        /\ \A k \in 0..(SliceAxisLength - 1) :
               VoxelSlice(k) = ExpectedSlice(sorted_datasets[k + 1])

\* rescale left open, the second of two slices alone carries a slope and no
\* intercept, and a float32 volume came back
C9_Witness ==
    /\ pc = "returned" /\ rescale = "None"
    /\ Len(sorted_datasets) = 2
    /\ DOMAIN sorted_datasets[1] \cap {"RescaleSlope", "RescaleIntercept"} = {}
    /\ DOMAIN sorted_datasets[2] \cap {"RescaleSlope", "RescaleIntercept"} = {"RescaleSlope"}
    /\ voxels.dtype = "float32"

-----------------------------------------------------------------------------
(* C10 *)

\* the shape (rows, columns) or (rows, columns, channels) of the pixel buffers
BufferShape == sorted_datasets[1].pixel_array.shape

\* C10 as stated: the merged array of n slices has shape (rows, columns,
\* channel?, n) in slice-minor layout and (n, rows, columns, channel?) in
\* slice-major layout.
C10_ShapeAsBuffer ==
    pc = "returned" =>
        voxels.shape = IF c_order_axes THEN <<Len(sorted_datasets)>> \o BufferShape
                       ELSE BufferShape \o <<Len(sorted_datasets)>>

\* C10 amended: the merged array of n slices has shape (columns, rows, n),
\* or (channels, columns, rows, n) for buffers with channels, in slice-minor
\* layout, and (n, rows, columns, channel?) in slice-major layout.
C10_ShapeReversedBuffer ==
    pc = "returned" =>
        voxels.shape = IF c_order_axes THEN <<Len(sorted_datasets)>> \o BufferShape
                       ELSE Reverse(BufferShape) \o <<Len(sorted_datasets)>>

\* two colour slices were merged in slice-minor layout
C10_Witness ==
    /\ pc = "returned" /\ ~c_order_axes
    /\ Len(sorted_datasets) = 2
    /\ Len(BufferShape) = 3
    /\ voxels.shape = <<3, 2, 1, 2>>

-----------------------------------------------------------------------------
(* C11 *)

\* the pixel buffer of dataset d with its axes reversed
TransposedBuffer(d) ==
    [idx \in Indices(Reverse(d.pixel_array.shape)) |-> d.pixel_array.at[Reverse(idx)]]

\* C11: in slice-minor layout without rescaling, the last axis of the merged
\* array of n image slices has length n, and for every k in 0..n-1 the
\* sub-array at last-axis index k is the transposed pixel buffer of the k-th
\* slice of the ordered list.  Fails for a list whose second buffer has
\* fewer rows than the first: the call returns and the sub-array repeats
\* the one row.
C11_SliceIsTransposedBuffer ==
    (pc = "returned" /\ ~c_order_axes /\ ~RescalingApplies) =>
        /\ voxels.shape[Len(voxels.shape)] = Len(ImagesOf(datasets))
        /\ \A k \in 0..(Len(sorted_datasets) - 1) :
               VoxelSlice(k) = TransposedBuffer(sorted_datasets[k + 1])

-----------------------------------------------------------------------------
(* C14 *)

\* the attributes that must agree, in the order of the claim
ComparedAttributes ==
    << "Modality", "SOPClassUID", "SeriesInstanceUID", "Rows", "Columns",
       "SamplesPerPixel", "PixelSpacing", "PixelRepresentation", "BitsAllocated" >>

\* the value of an attribute of a dataset: <<v>>, or <<>> when it has none
AttrOf(d, name) == IF name \in DOMAIN d THEN <<d[name]>> ELSE <<>>

\* the places in ComparedAttributes at which some slice differs from slice 0
Mismatching(ds) ==
    {i \in 1..Len(ComparedAttributes) :
        \E k \in 1..Len(ds) : AttrOf(ds[k], ComparedAttributes[i])
                                 # AttrOf(ds[1], ComparedAttributes[i])}

\* slice 0 of the list has row and column cosines that are not orthogonal
SliceZeroSkewed(ds) ==
    LET o == ds[1].ImageOrientationPatient
    IN  o[1] * o[4] + o[2] * o[5] + o[3] * o[6] # 0

\* C14: once the ordered list is past validation and some slice differs from
\* ordered slice 0 in a compared attribute, the call has ended with a
\* DicomImportException that names the first such attribute in the fixed
\* order and carries the value of a differing slice and the value of slice
\* 0, whatever else is wrong with the list's orientations or spacing.
C14_FirstMismatchReported ==
    (sorted_datasets # <<>> /\ pc # "sorted" /\ Mismatching(sorted_datasets) # {}) =>
        LET first == CHOOSE i \in Mismatching(sorted_datasets) :
                         \A j \in Mismatching(sorted_datasets) : i <= j
            name == ComparedAttributes[first]
        IN  /\ pc = "raised"
            /\ raised.type = "DicomImportException"
            /\ raised.property = name
            /\ "values" \in DOMAIN raised
            /\ \E k \in 1..Len(sorted_datasets) :
                   /\ AttrOf(sorted_datasets[k], name) # AttrOf(sorted_datasets[1], name)
                   /\ raised.values = <<AttrOf(sorted_datasets[k], name),
                                        AttrOf(sorted_datasets[1], name)>>

\* a list whose slice 0 has skewed cosines and whose slices differ in
\* modality, series and Rows was rejected for the Modality
C14_Witness ==
    /\ pc = "raised" /\ Len(sorted_datasets) = 3
    /\ SliceZeroSkewed(sorted_datasets)
    /\ Mismatching(sorted_datasets) = {1, 3, 4}
    /\ raised.property = "Modality"
    /\ raised.values = << <<"CT">>, <<"MR">> >>

-----------------------------------------------------------------------------
(* C15 *)

\* row cosine x column cosine of a dataset
SliceCosine(d) ==
    LET o == d.ImageOrientationPatient
    IN  << o[2] * o[6] - o[3] * o[5], o[3] * o[4] - o[1] * o[6], o[1] * o[5] - o[2] * o[4] >>

\* the k-th smallest entry of a sequence of numbers
KthSmallest(seq, k) ==
    CHOOSE x \in {seq[i] : i \in 1..Len(seq)} :
        /\ Cardinality({i \in 1..Len(seq) : seq[i] < x}) < k
        /\ k <= Cardinality({i \in 1..Len(seq) : seq[i] <= x})

\* twice the median of a sequence of numbers
MedianTwice(seq) ==
    KthSmallest(seq, (Len(seq) + 1) \div 2) + KthSmallest(seq, (Len(seq) \div 2) + 1)

\* the steps between the slice position scalars of neighbours, in list order
ConsecutiveSteps(ds) ==
    [k \in 1..(Len(ds) - 1) |-> ScalarPosition(ds[k + 1]) - ScalarPosition(ds[k])]

\* twice the slice spacing of an ordered list
SliceSpacingTwice(ds) ==
    IF Len(ds) >= 2 THEN MedianTwice(ConsecutiveSteps(ds))
    ELSE IF "SpacingBetweenSlices" \in DOMAIN ds[1] THEN 2 * ds[1].SpacingBetweenSlices
    ELSE 0

\* column c of the returned matrix, top three rows, doubled as the matrix is
AffineColumn(c) == <<transform[1][c], transform[2][c], transform[3][c]>>

\* C15: the returned matrix has column 0 = ordered slice 0's row cosine times
\* the second PixelSpacing component, column 1 = its column cosine times the
\* first PixelSpacing component, column 2 = the slice cosine times the slice
\* spacing, column 3 = ordered slice 0's ImagePositionPatient, and the bottom
\* row (0,0,0,1), in slice-minor and in slice-major layout alike: the matrix
\* is this function of the ordered list, whatever c_order_axes is.
C15_AffineColumns ==
    pc = "returned" =>
        LET first == sorted_datasets[1]
            o == first.ImageOrientationPatient
            spacing == first.PixelSpacing
        IN  /\ AffineColumn(1) = [i \in 1..3 |-> 2 * o[i] * spacing[2]]
            /\ AffineColumn(2) = [i \in 1..3 |-> 2 * o[i + 3] * spacing[1]]
            /\ AffineColumn(3) = [i \in 1..3 |->
                                     SliceCosine(first)[i] * SliceSpacingTwice(sorted_datasets)]
            /\ AffineColumn(4) = [i \in 1..3 |-> 2 * first.ImagePositionPatient[i]]
            /\ transform[4] = <<0, 0, 0, 2>>

\* two sagittal slices with pixel spacing (2, 3) came back in slice-major
\* layout: column 0 is (0,3,0) and column 1 is (0,0,2)
C15_Witness ==
    /\ pc = "returned" /\ c_order_axes /\ Len(sorted_datasets) = 2
    /\ sorted_datasets[1].PixelSpacing = <<2, 3>>
    /\ sorted_datasets[1].ImageOrientationPatient = <<0, 1, 0, 0, 0, 1>>
    /\ AffineColumn(1) = <<0, 6, 0>>
    /\ AffineColumn(2) = <<0, 0, 4>>

-----------------------------------------------------------------------------
(* C16 *)

\* the sum of the squares of the entries of a vector
SquaredNorm(v) == v[1] * v[1] + v[2] * v[2] + v[3] * v[3]

\* C16: for two or more slices column 2 of the affine is the slice cosine
\* times the median of the consecutive differences of the slice position
\* scalars in the order of the ordered list; for a single slice it is the
\* slice cosine times SpacingBetweenSlices, or times 0 without one, so its
\* norm is the absolute value of the hint.
C16_SliceSpacing ==
    pc = "returned" =>
        LET first == sorted_datasets[1]
            n == Len(sorted_datasets)
            hint == IF "SpacingBetweenSlices" \in DOMAIN first
                      THEN first.SpacingBetweenSlices ELSE 0
        IN  /\ n >= 2 =>
                  AffineColumn(3) = [i \in 1..3 |->
                      SliceCosine(first)[i] * MedianTwice(ConsecutiveSteps(sorted_datasets))]
            /\ n = 1 =>
                  /\ AffineColumn(3) = [i \in 1..3 |-> SliceCosine(first)[i] * 2 * hint]
                  /\ SquaredNorm(AffineColumn(3)) = (2 * Abs(hint)) * (2 * Abs(hint))

\* three slices left in the caller's order 3, 0, 1 with spacing not
\* enforced: the steps -3, 1 have median -1, and column 2 is (0,0,-1)
C16_Witness ==
    /\ pc = "returned" /\ Len(sorted_datasets) = 3
    /\ ConsecutiveSteps(sorted_datasets) = <<-3, 1>>
    /\ AffineColumn(3) = <<0, 0, -2>>

\* a single slice with SpacingBetweenSlices -5: column 2 has norm 5
C16_WitnessSingle ==
    /\ pc = "returned" /\ Len(sorted_datasets) = 1
    /\ "SpacingBetweenSlices" \in DOMAIN sorted_datasets[1]
    /\ sorted_datasets[1].SpacingBetweenSlices = -5
    /\ SquaredNorm(AffineColumn(3)) = 100

-----------------------------------------------------------------------------
(* C17 *)

\* the errors the package classifies
ClassifiedErrors == {"DicomImportException", "MissingInstanceNumberException"}

\* some slice's pixel buffer has another shape than the first slice's
BufferShapesDisagree(ds) ==
    \E k \in 1..Len(ds) : ds[k].pixel_array.shape # ds[1].pixel_array.shape

\* C17: a call that has failed has failed with a classified error and with
\* no output buffer allocated, and a call that has got past the merge had
\* no slice whose pixel buffer shape disagrees with the first slice's.
\* Fails: buffers of shapes (2,2) and (3,2) under equal Rows and Columns end
\* the call with numpy's ValueError after np.empty, and buffers of shapes
\* (2,2) and (1,2) are merged without any error.
C17_FailuresBeforeAllocation ==
    /\ pc = "raised" => (~allocated /\ raised.type \in ClassifiedErrors)
    /\ pc \in {"merged", "returned"} => ~BufferShapesDisagree(sorted_datasets)

-----------------------------------------------------------------------------
(* C18 *)

-----------------------------------------------------------------------------
(* C19 *)

\* the slice position scalar of d along the slice cosine of the list's
\* first dataset
PositionAlongFirst(ds, d) ==
    LET c == SliceCosine(ds[1])
        p == d.ImagePositionPatient
    IN  c[1] * p[1] + c[2] * p[2] + c[3] * p[3]

\* the datasets of a list that share the position scalar of d, in list order
SamePosition(ds, of, d) ==
    SelectSeq(ds, LAMBDA e : PositionAlongFirst(of, e) = PositionAlongFirst(of, d))

\* the datasets of a list that share the InstanceNumber of d, in list order
SameInstanceNumber(ds, d) ==
    SelectSeq(ds, LAMBDA e : e.InstanceNumber = d.InstanceNumber)

\* C19: once the ordering step is over, under the spatial strategy the
\* ordering has not failed and the slices of any one slice position scalar
\* stand in the ordered list in the relative order they had in the input;
\* under the instance strategy, when it has not failed, the slices of any
\* one InstanceNumber do.
C19_StableTies ==
    (pc \notin {"start", "filtered"} /\ slice_datasets # <<>> /\ ~skip_sorting) =>
        IF sort_by_instance
          THEN AllNumbered(slice_datasets) =>
                 /\ Len(sorted_datasets) = Len(slice_datasets)
                 /\ \A k \in 1..Len(slice_datasets) :
                        SameInstanceNumber(sorted_datasets, slice_datasets[k])
                            = SameInstanceNumber(slice_datasets, slice_datasets[k])
          ELSE /\ Len(sorted_datasets) = Len(slice_datasets)
               /\ \A k \in 1..Len(slice_datasets) :
                      SamePosition(sorted_datasets, slice_datasets, slice_datasets[k])
                          = SamePosition(slice_datasets, slice_datasets, slice_datasets[k])

\* spatial ordering was applied to two different slices at one position
C19_Witness ==
    /\ pc \notin {"start", "filtered"} /\ ~skip_sorting /\ ~sort_by_instance
    /\ Len(slice_datasets) = 2
    /\ slice_datasets[1] # slice_datasets[2]
    /\ SamePosition(slice_datasets, slice_datasets, slice_datasets[1]) = slice_datasets
    /\ sorted_datasets = slice_datasets

\* instance ordering was applied to two different slices of one number
C19_WitnessInstance ==
    /\ pc \notin {"start", "filtered"} /\ ~skip_sorting /\ sort_by_instance
    /\ Len(slice_datasets) = 2 /\ AllNumbered(slice_datasets)
    /\ slice_datasets[1] # slice_datasets[2]
    /\ slice_datasets[1].InstanceNumber = slice_datasets[2].InstanceNumber
    /\ sorted_datasets = slice_datasets

-----------------------------------------------------------------------------
(* C20 *)

\* the ordering step is over and has produced a list
Ordered == pc \notin {"start", "filtered"} /\ sorted_datasets # <<>>

\* the ordered list holds every image dataset of the input exactly once, and
\* a returned volume has one slice per image dataset
OrderingIsPermutation ==
    /\ Ordered =>
          /\ Len(sorted_datasets) = Len(ImagesOf(datasets))
          /\ \A k \in 1..Len(sorted_datasets) :
                 Cardinality({i \in 1..Len(sorted_datasets) :
                                 sorted_datasets[i] = sorted_datasets[k]})
                     = Cardinality({i \in 1..Len(ImagesOf(datasets)) :
                                       ImagesOf(datasets)[i] = sorted_datasets[k]})
    /\ pc = "returned" => SliceAxisLength = Len(ImagesOf(datasets))

\* under the spatial strategy the position scalars of the ordered list do
\* not decrease
SpatialOrderNonDecreasing ==
    (Ordered /\ ~skip_sorting /\ ~sort_by_instance) =>
        \A k \in 1..(Len(sorted_datasets) - 1) :
            PositionAlongFirst(slice_datasets, sorted_datasets[k])
                <= PositionAlongFirst(slice_datasets, sorted_datasets[k + 1])

\* the slice spacing the affine carries: column 2 projected on the slice
\* cosine, doubled as the matrix is
AffineSliceSpacingTwice ==
    LET c == SliceCosine(sorted_datasets[1])
        v == AffineColumn(3)
    IN  c[1] * v[1] + c[2] * v[2] + c[3] * v[3]

-----------------------------------------------------------------------------
(* C12 *)

\* the cosines of the orientation under check, in 1/10000
RowCosine == SubSeq(orientations[1], 1, 3)
ColumnCosine == SubSeq(orientations[1], 4, 6)

\* | row . column | > 1e-4, resp. 1e-8: the dot product is counted in 1e-8
DotExceeds1e4 == Abs(Dot(RowCosine, ColumnCosine)) > 10000
DotExceeds1e8 == Abs(Dot(RowCosine, ColumnCosine)) > 1

\* | |v| - 1 | > 1e-4 for v in 1/10000: |v| > 1.0001 or |v| < 0.9999, on
\* the squared norm in 1e-8
NormExceeds1e4(v) == Dot(v, v) > 10001 * 10001 \/ Dot(v, v) < 9999 * 9999

\* | |v| - 1 | > 1e-8: (1 + 1e-8)^2 = 1 + 2e-8 + 1e-16 and
\* (1 - 1e-8)^2 = 1 - 2e-8 + 1e-16, so the squared norm in 1e-8 is above
\* 100000002 or below 99999999
NormExceeds1e8(v) == Dot(v, v) > 100000002 \/ Dot(v, v) < 99999999

\* C12: the orientation check of slice 0 raises DicomImportException iff
\* |row.column| > 1e-4 or ||row| - 1| > 1e-4 or ||column| - 1| > 1e-4;
\* when one of the three exceeds 1e-8 and none exceeds 1e-4 it raises
\* nothing and warns, and when none exceeds 1e-8 it neither raises nor
\* warns.
C12_DualThreshold ==
    (Len(orientations) = 1 /\ verdict # <<>>) =>
        LET reject == DotExceeds1e4 \/ NormExceeds1e4(RowCosine) \/ NormExceeds1e4(ColumnCosine)
            notice == DotExceeds1e8 \/ NormExceeds1e8(RowCosine) \/ NormExceeds1e8(ColumnCosine)
        IN  /\ (verdict.exc.type = "DicomImportException") <=> reject
            /\ ~reject => verdict.exc = NoException
            /\ ~reject => ((verdict.warnings # {}) <=> notice)

\* a row cosine of norm 1.00005 passed the check with a warning
C12_Witness ==
    /\ Len(orientations) = 1 /\ verdict # <<>>
    /\ orientations[1] = <<10000, 0, 100, 0, 10000, 0>>
    /\ verdict.exc = NoException
    /\ verdict.warnings = {"row not quite 1"}

-----------------------------------------------------------------------------
(* C13 *)

\* some component of the second orientation differs from the first's by
\* more than 1e-5, the components counted in 1/1000000
DiffersByMoreThan1e5 ==
    \E i \in 1..6 : Abs(orientations[2][i] - orientations[1][i]) > 10

\* C13: the list is rejected with DicomImportException iff some component of
\* a slice's orientation differs from slice 0's by more than 1e-5, with
\* enforce_slice_spacing on or off.  Fails: a component of 1.000015 against
\* 1 is accepted.
C13_AbsoluteTolerance ==
    (Len(orientations) = 2 /\ verdict # <<>>) =>
        ((verdict.exc.type = "DicomImportException") <=> DiffersByMoreThan1e5)

=============================================================================
